---- MODULE Spec2Model ----
(***************************************************************************)
(* DHCPv4 client message codec (dhcp_message.cc): DHCPMessage construction,*)
(* InitFromBuffer, IsValid, ParseDHCPOptions and ComputeChecksum; and the  *)
(* client state machine of class DHCPV4 (dhcpv4.h), whose member functions *)
(* are defined outside the files at hand and are modelled from the design. *)
(*                                                                         *)
(* Memory is modelled as bytes at 0-based offsets from the buffer pointer: *)
(* offsets 0..length-1 are the caller's buffer, offsets >= length are the  *)
(* memory that happens to follow it (variable beyond).                     *)
(*                                                                         *)
(* InitFromBuffer returns only a bool.  The model labels each `return      *)
(* false` site with the error name the design gives it:                    *)
(*   line 101, 105 -> InvalidLength      line 135 -> InvalidMessage        *)
(*   line 162 -> MissingMessageType      line 169, 175 -> TruncatedOption  *)
(*   line 179 -> DuplicateOption         line 186 -> OptionDecodeError     *)
(*   line 197 -> UnterminatedOptions                                       *)
(***************************************************************************)
EXTENDS Integers, Sequences, FiniteSets, TLC

VARIABLES
    message,    \* the caller's DHCPMessage object
    buffer,     \* the bytes handed to InitFromBuffer (length = Len(buffer))
    bufnull,    \* TRUE when the caller passes buffer == NULL
    beyond,     \* the bytes of memory that follow the buffer
    pc,         \* "idle": no datagram; "recv": one is arriving; "done": decoded;
                \* "fault": the process was ended by a memory fault
    result,     \* outcome of the last InitFromBuffer: "none", "ok" or an error
    reads,      \* offsets InitFromBuffer read during the last call
    scan,       \* one record per iteration of the option loop of the last call
    room,       \* how many more options the datagram being received may take
    cs_data,    \* ComputeChecksum: the caller's data
    cs_pc,      \* "idle": data ready; "done": ComputeChecksum has returned
    cs_ret,     \* the uint16_t ComputeChecksum returned
    cs_first    \* the checksum the caller put into the data (-1: none yet)

VARIABLES
    state_,        \* DHCPV4::state_, the live ClientState
    arp_gateway_,  \* DHCPV4::arp_gateway_: probe the address before binding
    unicast_arp_,  \* DHCPV4::unicast_arp_: renew by unicast
    cached,        \* the persistence collaborator holds a lease for network_id_
    started,       \* Start() has been called
    xid,           \* transaction id of the outstanding request (0: none)
    lease,         \* <<>> or <<the LeaseRecord held>>
    timers,        \* the timer registrations: timer -> deadline (NoTimer: none)
    registered,    \* the socket readability callback is registered
    attempts,      \* retransmissions of the outstanding request so far
    emitted,       \* the datagrams the last event made the client send
    event,         \* the last event the client handled
    now,           \* the dispatcher's clock, in seconds
    budget         \* events the environment may still deliver

dvars == <<message, buffer, bufnull, beyond, pc, result, reads, scan, room>>
cvars == <<cs_data, cs_pc, cs_ret, cs_first>>
kvars == <<state_, arp_gateway_, unicast_arp_, cached, started, xid, lease,
           timers, registered, attempts, emitted, event, now, budget>>
vars == <<message, buffer, bufnull, beyond, pc, result, reads, scan, room,
          cs_data, cs_pc, cs_ret, cs_first,
          state_, arp_gateway_, unicast_arp_, cached, started, xid, lease,
          timers, registered, attempts, emitted, event, now, budget>>

----------------------------------------------------------------------------
(* Constants of dhcp_message.cc                                            *)

kClientHardwareAddressLength == 16
kServerNameLength == 64
kBootFileLength == 128
kDHCPOptionLength == 312
\* 0x63825363 as <<high 16 bits, low 16 bits>>
kMagicCookie == <<25474, 21347>>
kDHCPMessageMaxLength == 548
kDHCPMessageMinLength == 236
kDHCPMessageBootRequest == 1
kDHCPMessageBootReply == 2
kDHCPOptionPad == 0
kDHCPOptionDNSServer == 6
kDHCPOptionLeaseTime == 51
kDHCPOptionMessageType == 53
kDHCPOptionServerIdentifier == 54
kDHCPOptionRenewalTime == 58
kDHCPOptionRebindingTime == 59
kDHCPOptionEnd == 255
ARPHRD_ETHER == 1
IFHWADDRLEN == 6

(* Byte offsets of the fields of the packed struct RawDHCPMessage.         *)
off_op == 0
off_htype == 1
off_hlen == 2
off_hops == 3
off_xid == 4
off_secs == 8
off_flags == 10
off_ciaddr == 12
off_yiaddr == 16
off_siaddr == 20
off_giaddr == 24
off_chaddr == 28
off_sname == off_chaddr + kClientHardwareAddressLength
off_file == off_sname + kServerNameLength
off_cookie == off_file + kBootFileLength
off_options == off_cookie + 4

----------------------------------------------------------------------------
(* Memory and byte-order conversions                                       *)

\* The byte at offset off from the buffer pointer.  Past the buffer the
\* memory holds whatever follows it; it is modelled as the pattern beyond,
\* repeated.
Mem(buf, byd, off) ==
    IF off < Len(buf) THEN buf[off + 1]
    ELSE byd[((off - Len(buf)) % Len(byd)) + 1]

\* ntohs / ntohl of a field stored in network byte order at offset off.
Ntohs(buf, byd, off) ==
    Mem(buf, byd, off) * 256 + Mem(buf, byd, off + 1)

\* A uint32_t is held as <<high 16 bits, low 16 bits>>: its 32 bits do not
\* fit the model checker's integers.
U32(hi, lo) == <<hi, lo>>

Ntohl(buf, byd, off) ==
    U32(Mem(buf, byd, off) * 256 + Mem(buf, byd, off + 1),
        Mem(buf, byd, off + 2) * 256 + Mem(buf, byd, off + 3))

\* The n bytes that start at offset off.
Bytes(buf, byd, off, n) == [i \in 1..n |-> Mem(buf, byd, off + i - 1)]

----------------------------------------------------------------------------
(* DHCPMessage                                                             *)

\* DHCPMessage::DHCPMessage().  The initialiser list sets lease_time_,
\* renewal_time_ and rebinding_time_; strings, byte strings and vectors are
\* default-constructed empty; every other scalar member is left with an
\* indeterminate value (gh for the header members, go for the option
\* members).
DHCPMessage(gh, go) ==
    [ opcode_ |-> gh,
      hardware_address_type_ |-> gh,
      hardware_address_length_ |-> gh,
      relay_hops_ |-> gh,
      transaction_id_ |-> U32(0, gh),
      seconds_ |-> gh,
      flags_ |-> gh,
      client_ip_address_ |-> U32(0, gh),
      your_ip_address_ |-> U32(0, gh),
      next_server_ip_address_ |-> U32(0, gh),
      agent_ip_address_ |-> U32(0, gh),
      cookie_ |-> U32(0, gh),
      client_hardware_address_ |-> <<>>,
      servername_ |-> <<>>,
      bootfile_ |-> <<>>,
      message_type_ |-> go,
      lease_time_ |-> U32(0, 0),
      server_identifier_ |-> U32(0, go),
      renewal_time_ |-> U32(0, 0),
      rebinding_time_ |-> U32(0, 0),
      dns_server_ |-> <<>> ]

\* options_map_ as the constructor fills it: tag -> (parser, output member).
options_map ==
    [ t \in { kDHCPOptionMessageType, kDHCPOptionLeaseTime,
              kDHCPOptionServerIdentifier, kDHCPOptionRenewalTime,
              kDHCPOptionRebindingTime, kDHCPOptionDNSServer } |->
        CASE t = kDHCPOptionMessageType ->
               [parser |-> "UInt8Parser", output |-> "message_type_"]
          [] t = kDHCPOptionLeaseTime ->
               [parser |-> "UInt32Parser", output |-> "lease_time_"]
          [] t = kDHCPOptionServerIdentifier ->
               [parser |-> "UInt32Parser", output |-> "server_identifier_"]
          [] t = kDHCPOptionRenewalTime ->
               [parser |-> "UInt32Parser", output |-> "renewal_time_"]
          [] t = kDHCPOptionRebindingTime ->
               [parser |-> "UInt32Parser", output |-> "rebinding_time_"]
          [] OTHER ->
               [parser |-> "UInt32ListParser", output |-> "dns_server_"] ]

\* The members ParseDHCPOptions can write.
OptionMembers ==
    { "message_type_", "lease_time_", "server_identifier_", "renewal_time_",
      "rebinding_time_", "dns_server_" }

OptionFields(m) == [f \in OptionMembers |-> m[f]]

\* Parser::GetOption(buffer, length, output): the decoders of the option
\* parser registry.  A fixed-width unsigned integer fails unless the declared
\* length is its width; a list fails unless the declared length is a
\* positive multiple of the element width, and yields the elements in wire
\* order.
GetOption(parser, buf, byd, ptr, length) ==
    CASE parser = "UInt8Parser" ->
           IF length # 1 THEN [ok |-> FALSE, value |-> 0, n |-> 0]
           ELSE [ok |-> TRUE, value |-> Mem(buf, byd, ptr), n |-> 1]
      [] parser = "UInt32Parser" ->
           IF length # 4 THEN [ok |-> FALSE, value |-> 0, n |-> 0]
           ELSE [ok |-> TRUE, value |-> Ntohl(buf, byd, ptr), n |-> 4]
      [] OTHER ->
           IF length = 0 \/ length % 4 # 0
           THEN [ok |-> FALSE, value |-> 0, n |-> 0]
           ELSE [ok |-> TRUE,
                 value |-> [i \in 1..(length \div 4) |->
                              Ntohl(buf, byd, ptr + 4 * (i - 1))],
                 n |-> length]

----------------------------------------------------------------------------
(* DHCPMessage::IsValid                                                    *)

\* IsValid without the check of the flags field.
IsValid_NoFlags(m) ==
    /\ m.opcode_ = kDHCPMessageBootReply
    /\ m.hardware_address_type_ = ARPHRD_ETHER
    /\ m.hardware_address_length_ = IFHWADDRLEN
    /\ m.seconds_ = 0
    /\ m.cookie_ = kMagicCookie

IsValid(m) ==
    /\ m.opcode_ = kDHCPMessageBootReply
    /\ m.hardware_address_type_ = ARPHRD_ETHER
    /\ m.hardware_address_length_ = IFHWADDRLEN
    /\ m.seconds_ = 0
    /\ m.flags_ = 0
    /\ m.cookie_ = kMagicCookie

----------------------------------------------------------------------------
(* DHCPMessage::ParseDHCPOptions                                           *)

\* END accepted whether or not option 53 was stored.
HasMessageType_Always(options_set) == TRUE

\* line 160: options_set.find(kDHCPOptionMessageType) != options_set.end()
HasMessageType(options_set) == kDHCPOptionMessageType \in options_set

\* END looked for under the wrong value.
IsEnd_WrongTag(option_number) == option_number = 254

\* line 157: option_number == kDHCPOptionEnd
IsEnd(option_number) == option_number = kDHCPOptionEnd

\* line 166: no byte is left for the option length
NoLengthField(ptr, end_ptr) == ptr >= end_ptr

\* line 172: the payload does not fit before end_ptr
BadLengthField(ptr, option_length, end_ptr) == ptr + option_length >= end_ptr

\* No check for a repeated option.
IsRepeated_Never(option_number, options_set) == FALSE

\* line 177: the option number was stored before
IsRepeated(option_number, options_set) == option_number \in options_set

\* An ignored option recorded in options_set like a stored one.
IgnoreOption_Recorded(st, option_number) ==
    [st EXCEPT !.options_set = @ \cup {option_number}]

\* lines 189-191: an option that options_map_ does not hold is only logged.
IgnoreOption(st, option_number) == st

Step(at, tag, len, what) == [at |-> at, tag |-> tag, len |-> len, what |-> what]

Fail(st, err, rd, step) ==
    [st EXCEPT !.ok = FALSE, !.err = err, !.reads = @ \cup rd,
               !.scan = Append(@, step)]

\* The while loop of ParseDHCPOptions from cursor ptr on; st carries the
\* message, options_set, the offsets read and the iterations so far.
RECURSIVE ParseLoop(_, _, _, _, _)
ParseLoop(buf, byd, ptr, end_ptr, st) ==
    IF ~(ptr < end_ptr)
    THEN [st EXCEPT !.ok = FALSE, !.err = "UnterminatedOptions"]
    ELSE
      LET option_number == Mem(buf, byd, ptr)
          p1 == ptr + 1
      IN
      IF option_number = kDHCPOptionPad
      THEN ParseLoop(buf, byd, p1, end_ptr,
                     [st EXCEPT !.reads = @ \cup {ptr},
                                !.scan = Append(@, Step(ptr, 0, -1, "pad"))])
      ELSE IF IsEnd(option_number)
      THEN IF ~HasMessageType(st.options_set)
           THEN Fail(st, "MissingMessageType", {ptr},
                     Step(ptr, option_number, -1, "end"))
           ELSE [st EXCEPT !.ok = TRUE, !.err = "ok", !.reads = @ \cup {ptr},
                           !.scan = Append(@, Step(ptr, option_number, -1, "end"))]
      ELSE IF NoLengthField(p1, end_ptr)
      THEN Fail(st, "TruncatedOption", {ptr},
                Step(ptr, option_number, -1, "nolength"))
      ELSE
        LET option_length == Mem(buf, byd, p1)
            p2 == p1 + 1
        IN
        IF BadLengthField(p2, option_length, end_ptr)
        THEN Fail(st, "TruncatedOption", {ptr, p1},
                  Step(ptr, option_number, option_length, "badlength"))
        ELSE IF IsRepeated(option_number, st.options_set)
        THEN Fail(st, "DuplicateOption", {ptr, p1},
                  Step(ptr, option_number, option_length, "repeated"))
        ELSE IF option_number \in DOMAIN options_map
        THEN
          LET context == options_map[option_number]
              got == GetOption(context.parser, buf, byd, p2, option_length)
          IN
          IF ~got.ok
          THEN Fail(st, "OptionDecodeError", {ptr, p1},
                    Step(ptr, option_number, option_length, "undecodable"))
          ELSE ParseLoop(buf, byd, p2 + option_length, end_ptr,
                 [st EXCEPT !.msg = [@ EXCEPT ![context.output] = got.value],
                            !.options_set = @ \cup {option_number},
                            !.reads = @ \cup {ptr, p1} \cup (p2..(p2 + got.n - 1)),
                            !.scan = Append(@, Step(ptr, option_number,
                                                    option_length, "stored"))])
        ELSE ParseLoop(buf, byd, p2 + option_length, end_ptr,
                 [IgnoreOption(st, option_number) EXCEPT
                            !.reads = @ \cup {ptr, p1},
                            !.scan = Append(@, Step(ptr, option_number,
                                                    option_length, "ignored"))])

\* ParseDHCPOptions(options, options_length) on message m: options is the
\* offset of the options field, end_ptr = options + options_length.
ParseDHCPOptions(buf, byd, m, options, options_length) ==
    ParseLoop(buf, byd, options, options + options_length,
              [ok |-> FALSE, err |-> "none", msg |-> m, options_set |-> {},
               reads |-> {}, scan |-> <<>>])

----------------------------------------------------------------------------
(* DHCPMessage::InitFromBuffer                                             *)

\* The length check without its upper bound.
InvalidLength_NoMax(length) == length < kDHCPMessageMinLength

\* line 103
InvalidLength(length) ==
    length < kDHCPMessageMinLength \/ length > kDHCPMessageMaxLength

\* lines 109-110: (buffer + length) - raw_message->options + 1, a ptrdiff_t
\* converted to size_t.  A negative value here stands for that value modulo
\* 2^64: options + options_length is buffer + length + 1 either way.
OptionsLength(length) == length - off_options + 1

\* The offsets the fixed-header extraction reads (lines 111-132): every
\* field but chaddr in full, and hardware_address_length_ bytes of chaddr.
HeaderReads(hlen) ==
    (off_op..(off_chaddr - 1)) \cup (off_chaddr..(off_chaddr + hlen - 1))
      \cup (off_sname..(off_options - 1))

\* lines 111-132: the header members as read from the raw message.
ReadHeader(buf, byd, m) ==
    LET hlen == Mem(buf, byd, off_hlen) IN
    [m EXCEPT
       !.opcode_ = Mem(buf, byd, off_op),
       !.hardware_address_type_ = Mem(buf, byd, off_htype),
       !.hardware_address_length_ = hlen,
       !.relay_hops_ = Mem(buf, byd, off_hops),
       !.transaction_id_ = Ntohl(buf, byd, off_xid),
       !.seconds_ = Ntohs(buf, byd, off_secs),
       !.flags_ = Ntohs(buf, byd, off_flags),
       !.client_ip_address_ = Ntohl(buf, byd, off_ciaddr),
       !.your_ip_address_ = Ntohl(buf, byd, off_yiaddr),
       !.next_server_ip_address_ = Ntohl(buf, byd, off_siaddr),
       !.agent_ip_address_ = Ntohl(buf, byd, off_giaddr),
       !.cookie_ = Ntohl(buf, byd, off_cookie),
       !.client_hardware_address_ = Bytes(buf, byd, off_chaddr, hlen),
       !.servername_ = Bytes(buf, byd, off_sname, kServerNameLength),
       !.bootfile_ = Bytes(buf, byd, off_file, kBootFileLength)]

\* InitFromBuffer(buffer, length, message) with length = Len(buf); bnull
\* says that buffer is NULL.  Yields the return value, the message as the
\* call leaves it, the offsets it read and the iterations of the option loop.
InitFromBuffer(bnull, buf, byd, m) ==
    LET length == Len(buf)
        early == [ok |-> FALSE, err |-> "InvalidLength", msg |-> m,
                  reads |-> {}, scan |-> <<>>]
    IN
    IF bnull THEN early
    ELSE IF InvalidLength(length) THEN early
    ELSE
      LET options_length == OptionsLength(length)
          m1 == ReadHeader(buf, byd, m)
          rd == HeaderReads(m1.hardware_address_length_)
      IN
      IF ~IsValid(m1)
      THEN [ok |-> FALSE, err |-> "InvalidMessage", msg |-> m1,
            reads |-> rd, scan |-> <<>>]
      ELSE
        LET p == ParseDHCPOptions(buf, byd, m1, off_options, options_length)
        IN [ok |-> p.ok, err |-> p.err, msg |-> p.msg,
            reads |-> rd \cup p.reads, scan |-> p.scan]

----------------------------------------------------------------------------
(* The datagrams handed to InitFromBuffer                                  *)

MaxItems == 3

\* A well-formed reply header: BOOTREPLY, Ethernet, hlen 6, xid 42,
\* yiaddr 10.0.0.5, sixteen distinct chaddr bytes, the magic cookie.
BaseHeader ==
    [i \in 1..off_options |->
       LET o == i - 1 IN
       CASE o = off_op -> kDHCPMessageBootReply
         [] o = off_htype -> ARPHRD_ETHER
         [] o = off_hlen -> IFHWADDRLEN
         [] o = off_xid + 3 -> 42
         [] o \in off_yiaddr..(off_yiaddr + 3) -> <<10, 0, 0, 5>>[o - off_yiaddr + 1]
         [] o \in off_chaddr..(off_sname - 1) -> 17 + (o - off_chaddr)
         [] o = off_sname -> 115
         [] o = off_file -> 102
         [] o \in off_cookie..(off_options - 1) -> <<99, 130, 83, 99>>[o - off_cookie + 1]
         [] OTHER -> 0]

\* Options and fragments of options a datagram is assembled from.
Items ==
    { <<kDHCPOptionPad>>,
      <<kDHCPOptionEnd>>,
      <<kDHCPOptionMessageType, 1, 2>>,
      <<kDHCPOptionLeaseTime, 4, 0, 0, 14, 16>>,
      <<99, 1, 7>>,
      <<kDHCPOptionMessageType>> }

\* One header byte changed: <<offset, value>>.
Pokes ==
    { <<off_op, kDHCPMessageBootRequest>>, <<off_htype, 6>>,
      <<off_hlen, 0>>, <<off_hlen, 16>>, <<off_hlen, 17>>, <<off_hlen, 255>>,
      <<off_hops, 1>>, <<off_xid, 1>>, <<off_xid + 3, 1>>,
      <<off_secs, 1>>, <<off_secs + 1, 1>>,
      <<off_flags, 128>>, <<off_flags + 1, 1>>,
      <<off_ciaddr, 10>>, <<off_yiaddr + 3, 9>>, <<off_siaddr, 10>>,
      <<off_giaddr, 10>>, <<off_chaddr, 0>>, <<off_sname - 1, 1>>,
      <<off_sname, 0>>, <<off_file - 1, 1>>, <<off_file, 0>>,
      <<off_cookie - 1, 1>>, <<off_cookie, 0>>, <<off_cookie + 1, 0>>,
      <<off_cookie + 2, 0>>, <<off_cookie + 3, 98>> }

Poke(buf, p) == [buf EXCEPT ![p[1] + 1] = p[2]]

PokedAreas ==
    { <<kDHCPOptionMessageType, 1, 2, kDHCPOptionEnd>>,
      <<kDHCPOptionLeaseTime, 4, 0, 0, 14, 16,
        kDHCPOptionMessageType, 1, 5, kDHCPOptionEnd>> }

\* Option areas with options of tags the client does not know (99, 200),
\* repeated, between and around the options it knows.
UnknownAreas ==
    { <<99, 1, 7, kDHCPOptionMessageType, 1, 2, 99, 1, 7,
        kDHCPOptionLeaseTime, 4, 0, 0, 14, 16, 200, 0, kDHCPOptionEnd>>,
      <<200, 2, 255, 53, kDHCPOptionMessageType, 1, 5, 200, 2, 0, 0,
        kDHCPOptionEnd, 99, 1, 7>>,
      <<99, 1, 7, 99, 1, 8, kDHCPOptionEnd>>,
      <<kDHCPOptionMessageType, 1, 2, 99, 1, 7, 99, 1, 7>> }

UnknownDatagrams == { BaseHeader \o a : a \in UnknownAreas }

\* Complete datagrams: a changed header byte in front of a good option area,
\* truncated headers, and datagrams of the largest lengths.
PokedDatagrams == { Poke(BaseHeader \o a, p) : a \in PokedAreas, p \in Pokes }

ShortDatagrams ==
    { SubSeq(BaseHeader, 1, n) :
        n \in {0, kDHCPMessageMinLength - 1} \cup
              (kDHCPMessageMinLength..(off_options - 1)) }

\* n bytes: the header, a message type, two ignored options that fill the
\* option area, END.
LongDatagram(n) ==
    BaseHeader \o <<kDHCPOptionMessageType, 1, 2>>
      \o <<99, 255>> \o [i \in 1..255 |-> 7]
      \o <<99, n - off_options - 263>> \o [i \in 1..(n - off_options - 263) |-> 7]
      \o <<kDHCPOptionEnd>>

LongDatagrams ==
    { LongDatagram(n) : n \in {kDHCPMessageMaxLength, kDHCPMessageMaxLength + 1} }

\* What the memory after the buffer may hold: a PAD, an END, or bytes that
\* happen to spell the magic cookie (whose first byte is an unknown tag).
Beyond == { <<kDHCPOptionPad>>, <<kDHCPOptionEnd>>, <<99, 130, 83, 99>> }

\* Indeterminate values of uninitialised members.
Garbage == {0, 77}

----------------------------------------------------------------------------
(* class DHCPV4: the client state machine                                  *)

States ==
    { "INIT", "SELECTING", "REQUESTING", "INIT_REBOOT", "REBOOTING", "BOUND",
      "RENEWING", "REBINDING", "STOPPED" }

\* The timers the client registers with the event dispatcher.
Timers == { "T1", "T2", "expiry", "retransmit" }

\* The deadline of a timer that is not registered.
NoTimer == -1

NoTimers == [t \in Timers |-> NoTimer]

\* A DHCPV4 object on which neither Start() nor Stop() has been called.
ClientIdle ==
    /\ state_ = "INIT"
    /\ arp_gateway_ = FALSE
    /\ unicast_arp_ = FALSE
    /\ cached = FALSE
    /\ started = FALSE
    /\ xid = 0
    /\ lease = <<>>
    /\ timers = NoTimers
    /\ registered = FALSE
    /\ attempts = 0
    /\ emitted = <<>>
    /\ event = "none"
    /\ now = 0
    /\ budget = 0

----------------------------------------------------------------------------
(* Actions: the codec's caller                                             *)

ChecksumIdle ==
    /\ cs_data = [pat |-> <<>>, len |-> 0, at |-> -1, val |-> 0]
    /\ cs_pc = "idle"
    /\ cs_ret = 0
    /\ cs_first = -1

Init ==
    /\ \E g \in Garbage : message = DHCPMessage(g, g)
    /\ buffer = <<>>
    /\ bufnull = FALSE
    /\ beyond = <<0>>
    /\ pc = "idle"
    /\ result = "none"
    /\ reads = {}
    /\ scan = <<>>
    /\ room = 0
    /\ ChecksumIdle
    /\ ClientIdle

\* The caller constructs a new DHCPMessage for the next datagram.
Construct ==
    /\ pc = "done"
    /\ \E g \in Garbage : message' = DHCPMessage(g, g)
    /\ buffer' = <<>>
    /\ bufnull' = FALSE
    /\ beyond' = <<0>>
    /\ pc' = "idle"
    /\ result' = "none"
    /\ reads' = {}
    /\ scan' = <<>>
    /\ room' = 0
    /\ UNCHANGED <<cvars, kvars>>

\* The caller keeps its DHCPMessage for the next datagram.  (It does so
\* after a datagram that was too short or too long or that carried the
\* well-formed header.)
Reuse ==
    /\ pc = "done"
    /\ \/ result = "InvalidLength"
       \/ /\ Len(buffer) >= off_options
          /\ SubSeq(buffer, 1, off_options) = BaseHeader
    /\ buffer' = <<>>
    /\ bufnull' = FALSE
    /\ beyond' = <<0>>
    /\ pc' = "idle"
    /\ result' = "none"
    /\ reads' = {}
    /\ scan' = <<>>
    /\ room' = 0
    /\ UNCHANGED <<message, cvars, kvars>>

\* A datagram with a well-formed header starts to arrive.
RecvDatagram ==
    /\ pc = "idle"
    /\ buffer' = BaseHeader
    /\ pc' = "recv"
    /\ room' = MaxItems
    /\ UNCHANGED <<message, bufnull, beyond, result, reads, scan, cvars, kvars>>

\* A complete datagram of another shape arrives.
RecvOther ==
    /\ pc = "idle"
    /\ buffer' \in PokedDatagrams \cup ShortDatagrams \cup LongDatagrams
                  \cup UnknownDatagrams
    /\ pc' = "recv"
    /\ UNCHANGED <<message, bufnull, beyond, result, reads, scan, room, cvars, kvars>>

\* The caller has no buffer at all.
RecvNull ==
    /\ pc = "idle"
    /\ bufnull' = TRUE
    /\ pc' = "recv"
    /\ UNCHANGED <<message, buffer, beyond, result, reads, scan, room, cvars, kvars>>

\* One more option, or fragment of one, is appended to the datagram.
RecvOption ==
    /\ pc = "recv"
    /\ room > 0
    /\ \E item \in Items : buffer' = buffer \o item
    /\ room' = room - 1
    /\ UNCHANGED <<message, bufnull, beyond, pc, result, reads, scan, cvars, kvars>>

\* The offsets of r.reads that lie after the buffer.
Outside(buf, rd) == { o \in rd : o >= Len(buf) }

\* The first offset after the buffer that the call reads.
FaultAt(buf, rd) ==
    CHOOSE o \in Outside(buf, rd) : \A q \in Outside(buf, rd) : o <= q

\* The caller decodes the datagram into its message object.  A read after
\* the end of the buffer is undefined behaviour: it yields whatever the
\* memory there holds (byd) when that memory is readable, and ends the
\* process (pc = "fault", reads = the offset of the faulting read) when it
\* is not.
Decode ==
    /\ pc = "recv"
    /\ \E byd \in Beyond :
       \E r \in {InitFromBuffer(bufnull, buffer, byd, message)} :
       \E readable \in BOOLEAN :
         IF readable \/ Outside(buffer, r.reads) = {}
         THEN /\ beyond' = byd
              /\ message' = r.msg
              /\ result' = r.err
              /\ reads' = r.reads
              /\ scan' = r.scan
              /\ pc' = "done"
         ELSE /\ result' = "fault"
              /\ reads' = { FaultAt(buffer, r.reads) }
              /\ scan' = <<>>
              /\ pc' = "fault"
              /\ UNCHANGED <<beyond, message>>
    /\ UNCHANGED <<buffer, bufnull, room, cvars, kvars>>

Next ==
    \/ Construct
    \/ Reuse
    \/ RecvDatagram
    \/ RecvOther
    \/ RecvNull
    \/ RecvOption
    \/ Decode

Spec == Init /\ [][Next]_vars

----------------------------------------------------------------------------
(* Properties of InitFromBuffer                                            *)

Decoded == pc = "done" /\ ~bufnull

LengthAccepted ==
    Len(buffer) >= 236 /\ Len(buffer) <= 548

\* The header passed validation and the options were parsed.
OptionsParsed == Decoded /\ result \notin {"InvalidLength", "InvalidMessage"}

\* The offsets of the buffer that are in tag position, from offset p on, by
\* the TLV layout of the option area: PAD is one byte, END is the last tag,
\* any other tag is followed by a length byte and that many payload bytes.
RECURSIVE TagOffsets(_, _)
TagOffsets(buf, p) ==
    IF p >= Len(buf) THEN {}
    ELSE IF buf[p + 1] = 0 THEN {p} \cup TagOffsets(buf, p + 1)
    ELSE IF buf[p + 1] = 255 \/ p + 1 >= Len(buf) THEN {p}
    ELSE {p} \cup TagOffsets(buf, p + 2 + buf[p + 2])

NoEndTag(buf) == \A p \in TagOffsets(buf, 240) : buf[p + 1] # 255

\* The iterations of the option loop that looked at a tag inside the buffer.
InBuffer == { i \in DOMAIN scan : scan[i].at < Len(buffer) }

\* C1: a buffer shorter than 236 or longer than 548 bytes is rejected with
\* InvalidLength, and no byte of it (or after it) is read.
C1_InvalidLength ==
    (Decoded /\ ~LengthAccepted) => (result = "InvalidLength" /\ reads = {})

C1_Witness ==
    Decoded /\ Len(buffer) = 549 /\ result = "InvalidLength"

\* C2: a buffer of accepted length with a valid header whose option area
\* holds only well-formed options and no END tag fails with
\* UnterminatedOptions, whatever follows the buffer in memory.
C2_Unterminated ==
    ( /\ OptionsParsed
      /\ NoEndTag(buffer)
      /\ \A i \in InBuffer : scan[i].what \in {"pad", "stored", "ignored"} )
    => result = "UnterminatedOptions"

\* C3: an option (a tag other than PAD and END) whose length byte is not in
\* the buffer, or whose payload runs at or past the buffer end, ends the
\* parse with TruncatedOption.
C3_Truncated ==
    OptionsParsed =>
      \A i \in InBuffer :
        ( /\ scan[i].tag \notin {0, 255}
          /\ \/ scan[i].at + 1 >= Len(buffer)
             \/ scan[i].at + 2 + buffer[scan[i].at + 2] >= Len(buffer) )
        => (i = Len(scan) /\ result = "TruncatedOption")

\* C4: with hlen > 16 in a buffer of accepted length, the hardware address
\* copied into the message comes from the 16-byte chaddr field only.
C4_HardwareAddress ==
    (Decoded /\ LengthAccepted /\ buffer[3] > 16) =>
      \E n \in 0..16 :
        message.client_hardware_address_ = SubSeq(buffer, 29, 28 + n)

\* C5: a successful decode leaves the message as the same decode into a
\* freshly constructed message would: nothing of an earlier decode shows.
C5_NoCarryOver ==
    (Decoded /\ result = "ok") =>
      \E g \in Garbage :
        message = InitFromBuffer(bufnull, buffer, beyond, DHCPMessage(g, g)).msg

\* The six header conditions, on the raw bytes.
HeaderAccepted ==
    /\ Mem(buffer, beyond, 0) = 2
    /\ Mem(buffer, beyond, 1) = 1
    /\ Mem(buffer, beyond, 2) = 6
    /\ Mem(buffer, beyond, 8) = 0 /\ Mem(buffer, beyond, 9) = 0
    /\ Mem(buffer, beyond, 10) = 0 /\ Mem(buffer, beyond, 11) = 0
    /\ Bytes(buffer, beyond, 236, 4) = <<99, 130, 83, 99>>

\* The option at iteration i has its length byte and payload in the buffer.
Complete(i) ==
    /\ scan[i].at + 1 < Len(buffer)
    /\ scan[i].at + 2 + buffer[scan[i].at + 2] <= Len(buffer)

\* C6: the second occurrence of a tag that was already accepted in this
\* message, with its length byte and payload inside the buffer, ends the
\* parse with DuplicateOption; so do two occurrences of tag 53, identical
\* values or not.
C6_Duplicate ==
    OptionsParsed =>
      \A i \in InBuffer : \A j \in InBuffer :
        ( /\ i < j
          /\ scan[i].what = "stored"
          /\ scan[j].tag = scan[i].tag
          /\ Complete(j) )
        => (j = Len(scan) /\ result = "DuplicateOption")

C6_Witness ==
    /\ OptionsParsed
    /\ result = "DuplicateOption"
    /\ \E i \in InBuffer : \E j \in InBuffer :
         /\ i < j
         /\ scan[i].tag = 53 /\ scan[j].tag = 53
         /\ Complete(j)
         /\ buffer[scan[i].at + 3] = buffer[scan[j].at + 3]

\* C7: the parse succeeds only if option 53 was stored before END; a
\* message of valid options that has no tag 53 and has its END fails with
\* MissingMessageType.
C7_MessageType ==
    OptionsParsed =>
      /\ result = "ok" =>
           \E p \in TagOffsets(buffer, 240) : buffer[p + 1] = 53
      /\ ( /\ \E p \in TagOffsets(buffer, 240) : buffer[p + 1] = 255
           /\ \A p \in TagOffsets(buffer, 240) : buffer[p + 1] # 53
           /\ \A i \in InBuffer :
                scan[i].what \in {"pad", "stored", "ignored", "end"} )
         => result = "MissingMessageType"

C7_Witness ==
    /\ OptionsParsed
    /\ result = "MissingMessageType"
    /\ scan[Len(scan)].at < Len(buffer)
    /\ \E i \in InBuffer : scan[i].what = "stored"

\* C8: a buffer of accepted length is rejected with InvalidMessage exactly
\* when one of the six header conditions fails, whatever the other header
\* fields hold, and then no option is parsed and no option member written.
C8_HeaderValidation ==
    /\ []( (Decoded /\ LengthAccepted) =>
             /\ (result = "InvalidMessage") <=> ~HeaderAccepted
             /\ (result = "InvalidMessage") => scan = <<>> )
    /\ [][ (pc' = "done" /\ result' = "InvalidMessage")
             => OptionFields(message') = OptionFields(message) ]_vars

C8_Witness ==
    /\ Decoded
    /\ result = "InvalidMessage"
    /\ buffer[11] = 128
    /\ message.lease_time_ = U32(0, 3600)

\* The buffer without the options, from offset p on, whose tag is not in
\* options_map (nor PAD nor END) and whose length byte and payload lie
\* inside the buffer.  The walk follows the TLV layout and ends at END or at
\* an option that does not fit the buffer.
RECURSIVE StripUnknown(_, _)
StripUnknown(buf, p) ==
    IF p >= Len(buf) THEN buf
    ELSE IF buf[p + 1] = 0 THEN StripUnknown(buf, p + 1)
    ELSE IF buf[p + 1] = 255 \/ p + 1 >= Len(buf) THEN buf
    ELSE IF p + 2 + buf[p + 2] > Len(buf) THEN buf
    ELSE IF buf[p + 1] \in {6, 51, 53, 54, 58, 59}
         THEN StripUnknown(buf, p + 2 + buf[p + 2])
    ELSE StripUnknown(SubSeq(buf, 1, p)
                        \o SubSeq(buf, p + 3 + buf[p + 2], Len(buf)), p)

\* The step is a call of InitFromBuffer that went on to parse the options.
ParsedStep ==
    /\ pc = "recv" /\ pc' = "done" /\ ~bufnull
    /\ result' \notin {"InvalidLength", "InvalidMessage"}

\* C14: options of unknown tags that lie inside the buffer are skipped
\* without error, however often a tag recurs, and leave no trace: the result
\* and the message are those of decoding the buffer without these options.
C14_UnknownSkipped ==
    [][ ParsedStep =>
          \A r \in {InitFromBuffer(FALSE, StripUnknown(buffer, 240), beyond',
                                   message)} :
             /\ result' = r.err
             /\ message' = r.msg
             /\ \A i \in DOMAIN scan' :
                  ( /\ scan'[i].tag \notin {0, 6, 51, 53, 54, 58, 59, 255}
                    /\ scan'[i].at + 1 < Len(buffer)
                    /\ scan'[i].at + 2 + buffer[scan'[i].at + 2] <= Len(buffer) )
                  => scan'[i].what = "ignored" ]_vars

C14_Witness ==
    /\ Decoded /\ result = "ok"
    /\ scan[Len(scan)].at < Len(buffer)
    /\ message.lease_time_ = U32(0, 3600)
    /\ \E i \in InBuffer : \E j \in InBuffer :
         /\ i < j
         /\ scan[i].what = "ignored" /\ scan[j].what = "ignored"
         /\ scan[i].tag = scan[j].tag
         /\ Complete(i) /\ Complete(j)
         /\ StripUnknown(buffer, 240) # buffer

\* What may follow the END tag in a datagram: nothing, further options, or
\* padding.
Tails == { <<>>, <<kDHCPOptionMessageType, 1, 5, kDHCPOptionEnd>>, <<0, 0>> }

\* C15: the first END in tag position ends the scan: no byte after it is
\* read, and the result and the message are the same whatever follows it
\* in the datagram.
C15_EndTerminates ==
    [][ ParsedStep =>
          \A p \in TagOffsets(buffer, 240) :
            buffer[p + 1] = 255 =>
              /\ \A o \in reads' : o <= p
              /\ scan'[Len(scan')].at <= p
              /\ \A tail \in Tails :
                   LET other == SubSeq(buffer, 1, p + 1) \o tail IN
                   Len(other) <= 548 =>
                     \A r \in {InitFromBuffer(FALSE, other, beyond', message)} :
                       r.err = result' /\ r.msg = message' ]_vars

C15_Witness ==
    /\ Decoded /\ result = "ok"
    /\ \E p \in TagOffsets(buffer, 240) :
         /\ buffer[p + 1] = 255
         /\ p + 3 < Len(buffer)
         /\ buffer[p + 2] = 53
         /\ scan[Len(scan)].at = p

\* C16: for a buffer of accepted length, InitFromBuffer and
\* ParseDHCPOptions read only offsets 0..length-1, and the options length
\* they compute is the number of bytes the buffer holds from offset 240 on,
\* never less than zero.
C16_MemorySafety ==
    (Decoded /\ LengthAccepted) =>
      /\ \A o \in reads : o >= 0 /\ o < Len(buffer)
      /\ OptionsLength(Len(buffer)) >= 0
      /\ OptionsLength(Len(buffer)) =
           Cardinality(240..(Len(buffer) - 1))

\* C17: a call of InitFromBuffer that returns false leaves the caller's
\* message as it was before the call.
C17_AtomicOnError ==
    [][ (pc = "recv" /\ pc' = "done" /\ result' # "ok")
        => message' = message ]_vars

\* C18: InitFromBuffer returns on every buffer of accepted length: the
\* process is never ended by the call, and every iteration of the option
\* scan starts after the one before it and before the end of the option
\* area.
C18_Terminates ==
    /\ pc # "fault"
    /\ (Decoded /\ LengthAccepted) =>
         /\ result \in { "ok", "InvalidMessage", "MissingMessageType",
                         "TruncatedOption", "DuplicateOption",
                         "OptionDecodeError", "UnterminatedOptions" }
         /\ \A i \in DOMAIN scan : \A j \in DOMAIN scan :
              i < j => scan[i].at < scan[j].at
         /\ \A i \in DOMAIN scan :
              scan[i].at >= 240 /\ scan[i].at < 240 + OptionsLength(Len(buffer))

----------------------------------------------------------------------------
(* DHCPMessage::ComputeChecksum                                            *)

\* The caller's data: len bytes, byte i being pat[i mod Len(pat)], except
\* that the 16-bit field at offset at (when at >= 0) holds val, big-endian.
DataByte(d, i) ==
    IF d.at >= 0 /\ i = d.at THEN d.val \div 256
    ELSE IF d.at >= 0 /\ i = d.at + 1 THEN d.val % 256
    ELSE d.pat[(i % Len(d.pat)) + 1]

\* The word read little-endian.
Word_LittleEndian(d, k) == DataByte(d, 2 * k + 1) * 256 + DataByte(d, 2 * k)

\* line 247: data[0] << 8 | data[1], for the k-th pair of bytes
Word(d, k) == DataByte(d, 2 * k) * 256 + DataByte(d, 2 * k + 1)

\* uint32_t sum += x: addition modulo 2^32 on <<high 16 bits, low 16 bits>>.
Add32(sum, x) ==
    LET lo == sum[2] + x IN
    U32((sum[1] + lo \div 65536) % 65536, lo % 65536)

\* lines 246-250: the while loop over the pairs first .. first + count - 1,
\* in order, sum being the accumulator on entry: the first h iterations,
\* then the others on the accumulator they leave.  (The test left = left
\* is always true; it makes the model checker finish the first iterations
\* before it starts the others, which keeps its evaluation stack short.)
RECURSIVE SumWords(_, _, _, _)
SumWords(d, first, count, sum) ==
    IF count = 0 THEN sum
    ELSE IF count = 1 THEN Add32(sum, Word(d, first))
    ELSE LET h == count \div 2
             left == SumWords(d, first, h, sum)
         IN IF left = left
            THEN SumWords(d, first + h, count - h, left)
            ELSE left

\* The trailing byte added without the shift.
TailTerm_NoShift(b) == b

\* line 252: static_cast<uint32_t>(*data) << 8
TailTerm(b) == b * 256

\* line 254: sum = (sum >> 16) + (sum & 0xffff)
Fold1(sum) ==
    LET t == sum[1] + sum[2] IN U32(t \div 65536, t % 65536)

\* line 255: sum += (sum >> 16)
Fold2(sum) == Add32(sum, sum[1])

\* line 257: ~static_cast<uint16_t>(sum)
Complement16(sum) == 65535 - sum[2]

ComputeChecksum(d) ==
    LET looped == SumWords(d, 0, d.len \div 2, U32(0, 0))
        sum == IF d.len % 2 = 1
               THEN Add32(looped, TailTerm(DataByte(d, d.len - 1)))
               ELSE looped
    IN Complement16(Fold2(Fold1(sum)))

----------------------------------------------------------------------------
(* The data handed to ComputeChecksum                                      *)

MaxDataLen == 6

ByteValues == {0, 1, 255}

RECURSIVE ByteSeqs(_)
ByteSeqs(n) ==
    IF n = 0 THEN {<<>>}
    ELSE { Append(s, b) : s \in ByteSeqs(n - 1), b \in ByteValues }

\* Where a zeroed, 16-bit aligned checksum field may lie in s (-1: nowhere).
Fields(s) ==
    {-1} \cup { k \in 0..(Len(s) - 2) :
                  k % 2 = 0 /\ s[k + 1] = 0 /\ s[k + 2] = 0 }

SmallData ==
    UNION { { [pat |-> s, len |-> Len(s), at |-> a, val |-> 0] : a \in Fields(s) } :
              s \in UNION { ByteSeqs(n) : n \in 0..MaxDataLen } }

\* The number of 0xFFFF words whose sum still fits a uint32_t.
MaxExactWords == 65536 + 1

\* Long runs of one byte, around the capacity of the 32-bit accumulator.
LongData ==
    { [pat |-> <<255>>, len |-> 2 * MaxExactWords, at |-> -1, val |-> 0],
      [pat |-> <<255>>, len |-> 2 * MaxExactWords + 2, at |-> -1, val |-> 0],
      [pat |-> <<255>>, len |-> 2 * MaxExactWords + 4, at |-> 0, val |-> 0],
      [pat |-> <<0>>, len |-> 2 * MaxExactWords + 2, at |-> 0, val |-> 0] }

InitChecksum ==
    /\ message = DHCPMessage(0, 0)
    /\ buffer = <<>>
    /\ bufnull = FALSE
    /\ beyond = <<0>>
    /\ pc = "idle"
    /\ result = "none"
    /\ reads = {}
    /\ scan = <<>>
    /\ room = 0
    /\ cs_data \in SmallData \cup LongData
    /\ cs_pc = "idle"
    /\ cs_ret = 0
    /\ cs_first = -1
    /\ ClientIdle

\* The caller computes the checksum of its data.
Checksum ==
    /\ cs_pc = "idle"
    /\ cs_ret' = ComputeChecksum(cs_data)
    /\ cs_pc' = "done"
    /\ UNCHANGED <<dvars, kvars, cs_data, cs_first>>

\* The caller writes the checksum into the zeroed field of the data, so as
\* to compute the checksum of the result.
Reinsert ==
    /\ cs_pc = "done"
    /\ cs_first = -1
    /\ cs_data.at >= 0
    /\ cs_data' = [cs_data EXCEPT !.val = cs_ret]
    /\ cs_first' = cs_ret
    /\ cs_pc' = "idle"
    /\ UNCHANGED <<dvars, kvars, cs_ret>>

NextChecksum ==
    \/ Checksum
    \/ Reinsert

SpecChecksum == InitChecksum /\ [][NextChecksum]_vars

----------------------------------------------------------------------------
(* Properties of ComputeChecksum                                           *)

\* Ones' complement addition of two 16-bit words: end-around carry.
EndAround(a, b) == LET t == a + b IN (t % 65536) + (t \div 65536)

\* The k-th 16-bit big-endian word of the data, a last odd byte being the
\* high-order byte of a zero-padded word.
RefWord(d, k) ==
    DataByte(d, 2 * k) * 256
      + (IF 2 * k + 1 < d.len THEN DataByte(d, 2 * k + 1) ELSE 0)

RECURSIVE RefSum(_, _, _)
RefSum(d, first, count) ==
    IF count = 0 THEN 0
    ELSE IF count = 1 THEN RefWord(d, first)
    ELSE LET h == count \div 2 IN
         EndAround(RefSum(d, first, h), RefSum(d, first + h, count - h))

\* The Internet checksum of the data.
RefChecksum(d) == 65535 - RefSum(d, 0, (d.len + 1) \div 2)

AllZero(d) == d.val = 0 /\ \A i \in DOMAIN d.pat : d.pat[i] = 0

\* C9 (as stated): for data of any length ComputeChecksum is the Internet
\* checksum.
C9_AnyLength ==
    cs_pc = "done" => cs_ret = RefChecksum(cs_data)

\* C9 (amended): for data of at most 131074 bytes (65537 words, the most
\* whose sum always fits the 32-bit accumulator) ComputeChecksum is the
\* Internet checksum.
C9_Checksum ==
    (cs_pc = "done" /\ cs_data.len <= 2 * MaxExactWords)
    => cs_ret = RefChecksum(cs_data)

C9_Witness ==
    /\ cs_pc = "done"
    /\ cs_data.len = 2 * MaxExactWords
    /\ cs_ret = RefChecksum(cs_data)

\* C10: the checksum of all-zero data of even length is 0xFFFF, and the
\* checksum of even-length data that holds its own checksum in the checksum
\* field is 0.
C10_Residual ==
    (cs_pc = "done" /\ cs_data.len % 2 = 0) =>
      /\ (cs_first = -1 /\ AllZero(cs_data)) => cs_ret = 65535
      /\ cs_first # -1 => cs_ret = 0

C10_Witness ==
    /\ cs_pc = "done"
    /\ cs_data.len % 2 = 0
    /\ cs_first \notin {-1, 0, 65535}
    /\ cs_ret = 0

----------------------------------------------------------------------------
(* class DHCPV4: events and handlers                                       *)

MaxEvents == 6

\* Transaction ids (0 stands for "no request outstanding").
Xids == {1, 2}

\* The transaction id chosen for a new exchange differs from the last one.
NewXid(x) == IF x = 1 THEN 2 ELSE 1

\* Lease times a server grants, and the T1 / T2 it may state (0: not stated).
Leases == {3600, 100}

\* Retransmission: exponential backoff from BaseInterval, doubling up to
\* MaxInterval, plus a random jitter; MaxAttempts retransmissions before a
\* request that awaits its first lease times out.  A declined address is
\* followed by a wait of DeclineBackoff seconds.
BaseInterval == 4
MaxInterval == 64
Jitter == {0, 1}
MaxAttempts == 1
DeclineBackoff == 10

Min(a, b) == IF a < b THEN a ELSE b
Max(a, b) == IF a > b THEN a ELSE b

RetransmitInterval(n) == Min(BaseInterval * (2 ^ n), MaxInterval)

\* What the socket delivers: a datagram the codec rejects, or a decoded
\* OFFER, NAK or ACK.
NoMessage ==
    [decoded |-> FALSE, type |-> "none", xid |-> 0, chaddr_ok |-> FALSE,
     lease_time |-> 0, t1 |-> 0, t2 |-> 0]

\* The T1 / T2 pairs a server states: neither, T1 only, T2 only.
StatedTimes == { <<0, 0>>, <<40, 0>>, <<0, 80>> }

ServerMessages ==
    {NoMessage}
    \cup { [decoded |-> TRUE, type |-> ty, xid |-> x, chaddr_ok |-> TRUE,
            lease_time |-> 0, t1 |-> 0, t2 |-> 0] :
             ty \in {"OFFER", "NAK"}, x \in Xids }
    \cup { [decoded |-> TRUE, type |-> "ACK", xid |-> x, chaddr_ok |-> TRUE,
            lease_time |-> l, t1 |-> st[1], t2 |-> st[2]] :
             x \in Xids, l \in Leases, st \in StatedTimes }
    \cup { [decoded |-> TRUE, type |-> ty, xid |-> x, chaddr_ok |-> FALSE,
            lease_time |-> 0, t1 |-> 0, t2 |-> 0] :
             ty \in {"NAK", "ACK"}, x \in Xids }

Datagram(type, x, dest) == [type |-> type, xid |-> x, dest |-> dest]

\* Admission with the transaction id not compared.
Admitted_AnyXid(m, x) == m.decoded /\ m.chaddr_ok

\* Inbound message admission: the transaction id is the one of the
\* outstanding request and the hardware address is the local one.
Admitted(m, x) == m.decoded /\ m.xid = x /\ m.chaddr_ok

\* T2 defaulting to three quarters of the lease.
DefaultT2_ThreeQuarters(l) == (3 * l) \div 4

\* Timer policy: T1 defaults to the midpoint of the lease, T2 to 7/8 of it.
DefaultT1(l) == l \div 2
DefaultT2(l) == (7 * l) \div 8

RenewalTime(m) == IF m.t1 # 0 THEN m.t1 ELSE DefaultT1(m.lease_time)
RebindingTime(m) == IF m.t2 # 0 THEN m.t2 ELSE DefaultT2(m.lease_time)

\* The three timers armed on entering BOUND, relative to the receipt time t.
BoundTimers(m, t) ==
    [NoTimers EXCEPT !["T1"] = t + RenewalTime(m),
                     !["T2"] = t + RebindingTime(m),
                     !["expiry"] = t + m.lease_time]

LeaseRecord(m, t) ==
    [lease_time |-> m.lease_time, t1 |-> RenewalTime(m),
     t2 |-> RebindingTime(m), acquired |-> t]

\* States that await a reply and retransmit their request.
Awaiting == { "SELECTING", "INIT_REBOOT", "REQUESTING", "RENEWING", "REBINDING" }

\* A NAK acted on only while a reply is awaited.
NakApplies_Awaiting(st) == st \in Awaiting

\* Nak forces the transition to INIT in every state but STOPPED.
NakApplies(st) == st # "STOPPED"

\* Stop() that leaves the retransmission timer registered.
StopTimers_KeepRetransmit(ts) ==
    [t \in Timers |-> IF t = "retransmit" THEN ts[t] ELSE NoTimer]

\* Stop() cancels all pending timer registrations.
StopTimers(ts) == [t \in Timers |-> NoTimer]

Armed(ts) == { t \in Timers : ts[t] # NoTimer }

\* The dispatcher fires the registered timer whose deadline is first.
Due(ts, t) == t \in Armed(ts) /\ \A u \in Armed(ts) : ts[t] <= ts[u]

Event(kind, m, t, probe) ==
    [kind |-> kind, msg |-> m, timer |-> t, probe |-> probe,
     from |-> state_, held |-> lease # <<>>]

\* The environment delivers at most MaxEvents events.
Spend == budget > 0 /\ budget' = budget - 1

Config == UNCHANGED <<arp_gateway_, unicast_arp_, cached>>

\* Entering INIT: any lease is dropped, all timers are cancelled and a
\* DISCOVER with a new transaction id x is broadcast.
EnterInit(x) ==
    /\ state_' = "INIT"
    /\ xid' = x
    /\ lease' = <<>>
    /\ timers' = NoTimers
    /\ attempts' = 0
    /\ emitted' = <<Datagram("DISCOVER", x, "broadcast")>>

\* The event changes nothing in the client.
Ignore ==
    /\ emitted' = <<>>
    /\ UNCHANGED <<state_, xid, lease, timers, attempts>>

\* A DHCPV4 object as constructed, with its configuration.
InitClient ==
    /\ message = DHCPMessage(0, 0)
    /\ buffer = <<>>
    /\ bufnull = FALSE
    /\ beyond = <<0>>
    /\ pc = "idle"
    /\ result = "none"
    /\ reads = {}
    /\ scan = <<>>
    /\ room = 0
    /\ ChecksumIdle
    /\ state_ = "INIT"
    /\ arp_gateway_ \in BOOLEAN
    /\ unicast_arp_ \in BOOLEAN
    /\ cached \in BOOLEAN
    /\ started = FALSE
    /\ xid = 0
    /\ lease = <<>>
    /\ timers = NoTimers
    /\ registered = FALSE
    /\ attempts = 0
    /\ emitted = <<>>
    /\ event = [kind |-> "none", msg |-> NoMessage, timer |-> "none",
                probe |-> "none", from |-> "INIT", held |-> FALSE]
    /\ now = 0
    /\ budget = MaxEvents

\* Start(): with no usable cached lease the client enters INIT and
\* broadcasts a DISCOVER; with one it enters INIT_REBOOT and broadcasts a
\* REQUEST for the cached address.  The socket callback is registered.
Start ==
    /\ Spend
    /\ ~started
    /\ started' = TRUE
    /\ event' = Event("Start", NoMessage, "none", "none")
    /\ IF state_ = "STOPPED"
       THEN Ignore /\ UNCHANGED registered
       ELSE /\ registered' = TRUE
            /\ IF cached
               THEN /\ state_' = "INIT_REBOOT"
                    /\ xid' = NewXid(xid)
                    /\ emitted' = <<Datagram("REQUEST", NewXid(xid), "broadcast")>>
                    /\ \E j \in Jitter :
                         timers' = [NoTimers EXCEPT !["retransmit"] =
                                      now + RetransmitInterval(0) + j]
                    /\ attempts' = 0
                    /\ UNCHANGED lease
               ELSE EnterInit(NewXid(xid))
    /\ UNCHANGED now
    /\ Config
    /\ UNCHANGED <<dvars, cvars>>

\* Stop(): the timers are cancelled and the socket callback deregistered.
Stop ==
    /\ Spend
    /\ event' = Event("Stop", NoMessage, "none", "none")
    /\ state_' = "STOPPED"
    /\ timers' = StopTimers(timers)
    /\ registered' = FALSE
    /\ emitted' = <<>>
    /\ UNCHANGED <<started, xid, lease, attempts, now>>
    /\ Config
    /\ UNCHANGED <<dvars, cvars>>

\* The readability callback: the datagram m is decoded, admitted or dropped,
\* and handed to the state machine.  probe is what the ARP collaborator
\* reports when it is asked.
Receive ==
    /\ Spend
    /\ registered
    /\ \E m \in ServerMessages :
         LET asked == /\ Admitted(m, xid) /\ m.type = "ACK"
                      /\ state_ = "SELECTING" /\ arp_gateway_
         IN
         \E probe \in IF asked THEN {"free", "conflict"} ELSE {"none"} :
         /\ event' = Event("Receive", m, "none", probe)
         /\ IF ~Admitted(m, xid) THEN Ignore
            ELSE IF m.type = "NAK"
            THEN IF NakApplies(state_) THEN EnterInit(NewXid(xid)) ELSE Ignore
            ELSE IF m.type = "OFFER" /\ state_ = "INIT"
            THEN /\ state_' = "SELECTING"
                 /\ emitted' = <<Datagram("REQUEST", xid, "broadcast")>>
                 /\ \E j \in Jitter :
                      timers' = [NoTimers EXCEPT !["retransmit"] =
                                   now + RetransmitInterval(0) + j]
                 /\ attempts' = 0
                 /\ UNCHANGED <<xid, lease>>
            ELSE IF m.type = "ACK" /\ state_ \in Awaiting \cup {"REBOOTING"}
            THEN IF probe = "conflict"
                 THEN /\ state_' = "INIT"
                      /\ emitted' = <<Datagram("DECLINE", xid, "broadcast")>>
                      /\ xid' = 0
                      /\ lease' = <<>>
                      /\ timers' = [NoTimers EXCEPT !["retransmit"] =
                                      now + DeclineBackoff]
                      /\ attempts' = 0
                 ELSE /\ state_' = "BOUND"
                      /\ lease' = <<LeaseRecord(m, now)>>
                      /\ timers' = BoundTimers(m, now)
                      /\ attempts' = 0
                      /\ emitted' = <<>>
                      /\ UNCHANGED xid
            ELSE Ignore
    /\ UNCHANGED <<started, registered, now>>
    /\ Config
    /\ UNCHANGED <<dvars, cvars>>

\* The timer callback: the dispatcher's clock reaches the first deadline and
\* the one-shot timer t fires.
Fire ==
    /\ Spend
    /\ \E t \in Timers, j \in Jitter :
         LET at == Max(now, timers[t])
             x == NewXid(xid)
             rest == [timers EXCEPT ![t] = NoTimer]
             again == [rest EXCEPT !["retransmit"] =
                         at + RetransmitInterval(attempts + 1) + j]
         IN
         /\ Due(timers, t)
         /\ now' = at
         /\ event' = Event("Timer", NoMessage, t, "none")
         /\ CASE t = "retransmit" /\ state_ = "INIT" -> EnterInit(x)
              [] t = "retransmit" /\ state_ \in {"SELECTING", "INIT_REBOOT"}
                   /\ attempts >= MaxAttempts -> EnterInit(x)
              [] t = "retransmit" /\ state_ \in Awaiting
                   /\ ~(state_ \in {"SELECTING", "INIT_REBOOT"}
                        /\ attempts >= MaxAttempts) ->
                   /\ emitted' = <<Datagram("REQUEST", xid,
                                     IF state_ = "RENEWING" /\ unicast_arp_
                                     THEN "unicast" ELSE "broadcast")>>
                   /\ attempts' = Min(attempts + 1, 4)
                   /\ timers' = again
                   /\ UNCHANGED <<state_, xid, lease>>
              [] t = "T1" /\ state_ = "BOUND" ->
                   /\ state_' = "RENEWING"
                   /\ xid' = x
                   /\ emitted' = <<Datagram("REQUEST", x,
                                     IF unicast_arp_ THEN "unicast"
                                     ELSE "broadcast")>>
                   /\ attempts' = 0
                   /\ timers' = [rest EXCEPT !["retransmit"] =
                                   at + RetransmitInterval(0) + j]
                   /\ UNCHANGED lease
              [] t = "T2" /\ state_ = "RENEWING" ->
                   /\ state_' = "REBINDING"
                   /\ emitted' = <<Datagram("REQUEST", xid, "broadcast")>>
                   /\ attempts' = 0
                   /\ timers' = [rest EXCEPT !["retransmit"] =
                                   at + RetransmitInterval(0) + j]
                   /\ UNCHANGED <<xid, lease>>
              [] t = "expiry" /\ state_ = "REBINDING" -> EnterInit(x)
              [] OTHER ->
                   /\ timers' = rest
                   /\ emitted' = <<>>
                   /\ UNCHANGED <<state_, xid, lease, attempts>>
    /\ UNCHANGED <<started, registered>>
    /\ Config
    /\ UNCHANGED <<dvars, cvars>>

NextClient ==
    \/ Start
    \/ Stop
    \/ Receive
    \/ Fire

SpecClient == InitClient /\ [][NextClient]_vars

----------------------------------------------------------------------------
(* Properties of the client state machine                                  *)

\* The step is the handling of an event of this kind.
Handled(kind) == budget' < budget /\ event'.kind = kind

OneDatagram(out, type) == Len(out) = 1 /\ out[1].type = type

\* The step is the receipt of an admitted message of this type.
Admits(type) ==
    /\ Handled("Receive")
    /\ event'.msg.decoded /\ event'.msg.chaddr_ok
    /\ event'.msg.xid = xid
    /\ event'.msg.type = type

StartFresh ==
    (Handled("Start") /\ ~cached /\ state_ # "STOPPED")
    => (state_' = "INIT" /\ OneDatagram(emitted', "DISCOVER"))

OfferInInit ==
    (Admits("OFFER") /\ state_ = "INIT")
    => (state_' = "SELECTING" /\ OneDatagram(emitted', "REQUEST"))

\* BOUND with the timers the lease time alone determines.
BoundByDefault ==
    /\ state_' = "BOUND"
    /\ (event'.msg.t1 = 0 /\ event'.msg.t2 = 0) =>
         /\ timers'["T1"] = now' + event'.msg.lease_time \div 2
         /\ timers'["T2"] = now' + (7 * event'.msg.lease_time) \div 8
         /\ event'.msg.lease_time = 3600 =>
              /\ timers'["T1"] = now' + 1800
              /\ timers'["T2"] = now' + 3150

C13_Stop ==
    /\ [](state_ = "STOPPED" => (timers = NoTimers /\ ~registered))
    /\ [][ /\ Handled("Stop") => state_' = "STOPPED"
           /\ state_ = "STOPPED" =>
                /\ state_' = "STOPPED"
                /\ ~Handled("Receive")
                /\ ~Handled("Timer") ]_vars

C13_Witness ==
    /\ state_ = "STOPPED"
    /\ event.kind = "Stop" /\ event.from = "RENEWING"
    /\ budget > 0

====
